---- MODULE Spec2Model ----
(***************************************************************************)
(* OpenClaw gateway: the connection handler (gateway_ws), the chat turn    *)
(* task (_handle_chat), the heartbeat loop (_heartbeat_loop), the frame    *)
(* codec (protocol.py) and the auth gate (auth.py).                        *)
(*                                                                         *)
(* Granularity: one action is the code a coroutine runs between two        *)
(* awaits, ending with the effect of the await it then issues (a frame put *)
(* on the wire, a row inserted).  A send on a closed transport raises; the *)
(* exception is handled by the coroutine's next action.                    *)
(***************************************************************************)
EXTENDS Integers, Sequences, FiniteSets, TLC

\* ------------------------------------------------------------------ bounds
NumConns == 3
ProtoConns == 1
ProtoFrames == 3
ProtoRuns == 1
ProtoTokens == 1
ChatConns == 1
ChatFrames == 3
ChatRuns == 2
ChatTokens == 2
FaultConns == 2
FaultFrames == 4
FaultRuns == 1
FaultTicks == 1
HbConns == 3
HbFrames == 3
HbTicks == 2
CapConns == 1
CapFrames == 22
CapRuns == 21
MaxCalls == 2
TurnConns == 1
TurnFrames == 2
TurnRuns == 1
TurnTokens == 2
MaxLog == 3
MaxSec == 1
MaxMicro == 1
MaxLimit == 3
MaxReads == 1
PairConns == 2
PairFrames == 4
PairRuns == 2
PairTokens == 1
PruneConns == 1
PruneFrames == 4
PruneRuns == 1
PruneTokens == 1
PruneTicks == 2

\* ------------------------------------------------------- program constants
MAX_HISTORY == 40
CLOSE_AUTH_FAILED == 4001
PROTOCOL_VERSION == 3

Conns == 1..NumConns

\* ------------------------------------------------------------- JSON values
\* A decoded JSON value is tagged with its Python type.  An object carries
\* the keys the gateway reads; Missing marks a key that is absent.
Missing == [t |-> "missing"]
JNull == [t |-> "null"]
JNum(n) == [t |-> "int", n |-> n]
JStr(s) == [t |-> "str", s |-> s]
JArr == [t |-> "list"]
JObj(fields) == [t |-> "dict", f |-> fields]

IsDict(v) == v.t = "dict"

\* dict.get(key, default)
Get(obj, key, default) == IF obj.f[key] = Missing THEN default ELSE obj.f[key]

\* Python truthiness of a decoded value (`not message_text`)
Falsy(v) == v = JNull \/ v = JStr("") \/ v = JNum(0)

EmptyParams == JObj([auth |-> Missing, message |-> Missing])
EmptyAuth == JObj([token |-> Missing])

\* Strings holding a character outside ASCII (written here in ASCII).
NonAscii == {"s<U+00E9>cret"}

\* ------------------------------------------------------------- protocol.py
make_response(req_id, payload) == [type |-> "res", id |-> req_id, ok |-> TRUE, payload |-> payload]

make_error(req_id, code, message) == [type |-> "res", id |-> req_id, ok |-> FALSE, error |-> [code |-> code, message |-> message]]

make_event(event, payload) == [type |-> "event", event |-> event, payload |-> payload]

make_challenge == make_event("connect.challenge", [type |-> "connect_challenge", protocols |-> <<PROTOCOL_VERSION>>, server |-> [id |-> "openclaw-gateway", version |-> "0.1.0"]])

\* the session token is a fresh uuid4, of which nothing in the gateway reads
make_hello_ok(req_id) == make_response(req_id, [type |-> "hello-ok", protocol |-> PROTOCOL_VERSION, session |-> "uuid4"])

make_tick == make_event("tick", <<>>)

make_chat_event(run_id, text, state, is_final) == make_event("chat", [runId |-> run_id, state |-> IF is_final THEN "final" ELSE state, text |-> text])

make_agent_lifecycle(run_id, phase) == make_event("agent", [runId |-> run_id, stream |-> "lifecycle", data |-> [phase |-> phase]])

\* the event built in _handle_chat's exception handler
make_agent_error(run_id, message) == make_event("agent", [runId |-> run_id, stream |-> "error", data |-> [message |-> message]])

\* An inbound text is either not JSON or the JSON value it encodes.
None == [t |-> "none"]

parse_frame(text) == IF ~text.json THEN None ELSE IF text.v = JNull THEN None ELSE text.v

\* ----------------------------------------------------------------- auth.py
\* hmac.compare_digest(a, b): TypeError unless both are ASCII str
compare_digest(a, b) == IF a.t # "str" \/ a.s \in NonAscii \/ b \in NonAscii THEN "TypeError" ELSE IF a.s = b THEN "true" ELSE "false"

verify_token(token, expected) == IF expected = "" THEN "false" ELSE compare_digest(token, expected)


\* ------------------------------------------------------------------- state
VARIABLES limit, auth_token, calls, hpc, authenticated, cur, rcvd, ws, closeCode, sent, clients, conversations, history, nextRun, runs, messages, hbpc, hbSnap, hbIdx, hbFailed, hbOk, ticks

\* limit: what the environment of one specification does at most (inbound
\* texts over all connections, connections, chat runs, tokens per stream,
\* heartbeat ticks); no action changes it
authvars == <<limit, auth_token, calls>>
hvars == <<hpc, authenticated, cur, rcvd>>
tvars == <<ws, closeCode, sent>>
regvars == <<clients, conversations, history>>
runvars == <<nextRun, runs, messages>>
hbvars == <<hbpc, hbSnap, hbIdx, hbFailed, hbOk, ticks>>
vars == <<authvars, hvars, tvars, regvars, runvars, hbvars>>

\* ws[c]: "none" (not accepted), "open", "peer_closed", "server_closed"
WsOpen(c) == ws[c] = "open"

\* the secret the running server holds (lifespan calls ensure_token first)
Secret == "s3cret"

\* no chat.send being dispatched
NoCur == [message_text |-> "", run_id |-> 0]

Limits(conns, frames, nruns, tokens, nticks) == [conns |-> conns, frames |-> frames, runs |-> nruns, tokens |-> tokens, ticks |-> nticks]

\* the module state of a freshly started server
Fresh ==
    /\ calls = <<>>
    /\ hpc = [c \in Conns |-> "idle"]
    /\ authenticated = [c \in Conns |-> FALSE]
    /\ cur = [c \in Conns |-> NoCur]
    /\ rcvd = [c \in Conns |-> <<>>]
    /\ ws = [c \in Conns |-> "none"]
    /\ closeCode = [c \in Conns |-> 0]
    /\ sent = [c \in Conns |-> <<>>]
    /\ clients = <<>>
    /\ conversations = {}
    /\ history = [c \in Conns |-> <<>>]
    /\ nextRun = 1
    /\ runs = <<>>
    /\ messages = <<>>
    /\ hbpc = "sleep"
    /\ hbSnap = <<>>
    /\ hbIdx = 0
    /\ hbOk = {}
    /\ hbFailed = 0
    /\ ticks = 0

Boot == auth_token = Secret /\ Fresh

\* --------------------------------------------------------- inbound texts
Req(id, method, params) == [json |-> TRUE, v |-> JObj([type |-> JStr("req"), id |-> JNum(id), method |-> JStr(method), params |-> params])]

Params(auth, message) == JObj([auth |-> auth, message |-> message])

ConnectWith(id, token) == Req(id, "connect", Params(JObj([token |-> token]), Missing))

ConnectValid(id) == ConnectWith(id, JStr(Secret))

ChatSend(id, message) == Req(id, "chat.send", Params(Missing, JStr(message)))

NotJson == [json |-> FALSE]

\* texts that are not a request object
OtherTexts == {NotJson, [json |-> TRUE, v |-> JNull], [json |-> TRUE, v |-> JNum(7)], [json |-> TRUE, v |-> JObj([type |-> JStr("event"), id |-> Missing, method |-> Missing, params |-> Missing])], [json |-> TRUE, v |-> JObj([type |-> JStr("req"), id |-> Missing, method |-> Missing, params |-> Missing])]}

ConnectTexts(id) == {ConnectValid(id), ConnectWith(id, JStr("wrong")), ConnectWith(id, Missing), ConnectWith(id, JNum(7)), Req(id, "connect", Params(JStr("x"), Missing)), Req(id, "connect", JArr)}

ChatTexts(id) == {ChatSend(id, "hi"), ChatSend(id, ""), Req(id, "chat.send", JArr)}

MiscTexts(id) == {Req(id, "approval.respond", EmptyParams), Req(id, "ping", EmptyParams)}

AllTexts(id) == OtherTexts \cup ConnectTexts(id) \cup ChatTexts(id) \cup MiscTexts(id)

\* --------------------------------------------------- gateway_ws: dispatch
\* The branch of the read loop's body a text takes: the code's conditions in
\* the code's order.  "fault" is an AttributeError or TypeError raised by the
\* body, caught by `except Exception`.
ConnectBranch(params, expected) ==
    IF ~IsDict(params) THEN "fault"
    ELSE LET auth == Get(params, "auth", EmptyAuth) IN
         IF ~IsDict(auth) THEN "fault"
         ELSE LET v == verify_token(Get(auth, "token", JStr("")), expected) IN
              IF v = "TypeError" THEN "fault" ELSE IF v = "true" THEN "hello" ELSE "auth_failed"

\* chat.send handled without the authentication check (a faulty variant of
\* ChatBranch)
ChatBranchUnchecked(params, isAuth) ==
    IF ~IsDict(params) THEN "fault"
    ELSE IF Falsy(Get(params, "message", JStr(""))) THEN "empty" ELSE "accept"

ChatBranch(params, isAuth) ==
    IF ~isAuth THEN "not_authenticated"
    ELSE IF ~IsDict(params) THEN "fault"
    ELSE IF Falsy(Get(params, "message", JStr(""))) THEN "empty" ELSE "accept"

ApprovalBranch(isAuth) == IF ~isAuth THEN "silent" ELSE "ack"

Branch(text, isAuth, expected) ==
    LET frame == parse_frame(text) IN
    IF frame = None THEN "ignore"
    ELSE IF ~IsDict(frame) THEN "fault"
    ELSE IF Get(frame, "type", JStr("")) # JStr("req") THEN "skip"
    ELSE LET method == Get(frame, "method", JStr(""))
             params == Get(frame, "params", EmptyParams) IN
         IF method = JStr("connect") THEN ConnectBranch(params, expected)
         ELSE IF method = JStr("chat.send") THEN ChatBranch(params, isAuth)
         ELSE IF method = JStr("approval.respond") THEN ApprovalBranch(isAuth)
         ELSE "unknown"

\* req_id, method and message_text of a text that decodes to an object
ReqId(text) == Get(parse_frame(text), "id", JStr(""))

Method(text) == Get(parse_frame(text), "method", JStr(""))

MessageText(text) == Get(Get(parse_frame(text), "params", EmptyParams), "message", JStr("")).s

\* a registration that is lost (a faulty variant of Register)
RegisterNothing(reg, c) == reg

\* _clients[client_id] = ws: a dict keeps a key's first insertion position
Register(reg, c) == IF \E i \in 1..Len(reg) : reg[i] = c THEN reg ELSE Append(reg, c)

\* a pop that removes nothing (a faulty variant of Pop)
PopNothing(reg, c) == reg

\* _clients.pop(client_id, None)
Pop(reg, c) == SelectSeq(reg, LAMBDA x : x # c)

Registered(c) == \E i \in 1..Len(clients) : clients[i] = c


\* ------------------------------------------------- gateway_ws: the handler
\* hpc[c]: "idle" (not accepted), "recv" (awaiting receive_text), "store"
\* (awaiting the ack's send), "spawn" (awaiting store_message), "closing"
\* (awaiting the auth_failed send), "closed" (awaiting ws.close), "raised" (a
\* send raised), "exited" (the coroutine returned).

\* ws.accept(); ws.send_text(make_challenge())
Accept(c) ==
    /\ hpc[c] = "idle"
    /\ c <= limit.conns
    /\ c > 1 => hpc[c - 1] # "idle"
    /\ hpc' = [hpc EXCEPT ![c] = "recv"]
    /\ ws' = [ws EXCEPT ![c] = "open"]
    /\ sent' = [sent EXCEPT ![c] = Append(@, make_challenge)]
    /\ UNCHANGED <<authvars, authenticated, cur, rcvd, closeCode, regvars, runvars, hbvars>>

\* the client goes away
PeerClose(c) ==
    /\ hpc[c] \notin {"idle", "exited"}
    /\ WsOpen(c)
    /\ ws' = [ws EXCEPT ![c] = "peer_closed"]
    /\ UNCHANGED <<authvars, hvars, closeCode, sent, regvars, runvars, hbvars>>

RECURSIVE SumLen(_, _)
SumLen(f, n) == IF n = 0 THEN 0 ELSE Len(f[n]) + SumLen(f, n - 1)

\* the inbound texts taken so far, over all connections
TextsTaken == SumLen(rcvd, NumConns)

\* receive_text() returns `text`, the connection's id-th inbound text (a
\* client numbers its requests)
Receives(c, id, text) ==
    /\ hpc[c] = "recv"
    /\ id = Len(rcvd[c]) + 1
    /\ WsOpen(c)
    /\ TextsTaken < limit.frames
    /\ rcvd' = [rcvd EXCEPT ![c] = Append(@, text)]

\* await ws.send_text(frame) in the handler: the frame goes out and the
\* handler goes on to `okpc`, or the peer is gone and the send raises
HSend(c, frame, okpc) ==
    \/ /\ sent' = [sent EXCEPT ![c] = Append(@, frame)]
       /\ hpc' = [hpc EXCEPT ![c] = okpc]
       /\ UNCHANGED <<ws, closeCode>>
    \/ /\ ws' = [ws EXCEPT ![c] = "peer_closed"]
       /\ hpc' = [hpc EXCEPT ![c] = "raised"]
       /\ UNCHANGED <<sent, closeCode>>

\* finally: _clients.pop(client_id, None); _conversations.pop(client_id, None);
\* the coroutine returns and the server closes the transport
\* a teardown that leaves the transcript behind (a faulty variant of Teardown)
TeardownKeepsTranscript(c) ==
    /\ hpc' = [hpc EXCEPT ![c] = "exited"]
    /\ clients' = Pop(clients, c)
    /\ conversations' = conversations
    /\ ws' = [ws EXCEPT ![c] = IF @ = "open" THEN "server_closed" ELSE @]
    /\ UNCHANGED <<history, closeCode, sent>>

Teardown(c) ==
    /\ hpc' = [hpc EXCEPT ![c] = "exited"]
    /\ clients' = Pop(clients, c)
    /\ conversations' = conversations \ {c}
    /\ ws' = [ws EXCEPT ![c] = IF @ = "open" THEN "server_closed" ELSE @]
    /\ UNCHANGED <<history, closeCode, sent>>

\* parse_frame returned None: continue
RecvMalformed(c, id, text) ==
    /\ Receives(c, id, text)
    /\ Branch(text, authenticated[c], auth_token) = "ignore"
    /\ UNCHANGED <<authvars, hpc, authenticated, cur, tvars, regvars, runvars, hbvars>>

\* a frame whose type is not "req": nothing to do
RecvNotRequest(c, id, text) ==
    /\ Receives(c, id, text)
    /\ Branch(text, authenticated[c], auth_token) = "skip"
    /\ UNCHANGED <<authvars, hpc, authenticated, cur, tvars, regvars, runvars, hbvars>>

\* the loop body raised (AttributeError, TypeError): except Exception, finally
RecvFault(c, id, text) ==
    /\ Receives(c, id, text)
    /\ Branch(text, authenticated[c], auth_token) = "fault"
    /\ Teardown(c)
    /\ UNCHANGED <<authvars, authenticated, cur, runvars, hbvars>>

\* connect, verify_token(token) true
RecvConnectOk(c, id, text) ==
    /\ Receives(c, id, text)
    /\ Branch(text, authenticated[c], auth_token) = "hello"
    /\ authenticated' = [authenticated EXCEPT ![c] = TRUE]
    /\ clients' = Register(clients, c)
    /\ conversations' = conversations \cup {c}
    /\ HSend(c, make_hello_ok(ReqId(text)), "recv")
    /\ UNCHANGED <<authvars, cur, history, runvars, hbvars>>

\* connect, verify_token(token) false
RecvConnectFail(c, id, text) ==
    /\ Receives(c, id, text)
    /\ Branch(text, authenticated[c], auth_token) = "auth_failed"
    /\ HSend(c, make_error(ReqId(text), "auth_failed", "Invalid token"), "closing")
    /\ UNCHANGED <<authvars, authenticated, cur, regvars, runvars, hbvars>>

\* await ws.close(code=4001, reason="Authentication failed")
HandlerClose(c) ==
    /\ hpc[c] = "closing"
    /\ hpc' = [hpc EXCEPT ![c] = "closed"]
    /\ closeCode' = [closeCode EXCEPT ![c] = IF WsOpen(c) THEN CLOSE_AUTH_FAILED ELSE @]
    /\ ws' = [ws EXCEPT ![c] = IF @ = "open" THEN "server_closed" ELSE @]
    /\ UNCHANGED <<authvars, authenticated, cur, rcvd, sent, regvars, runvars, hbvars>>

\* return after the close, or a send's exception reaching except/finally
HandlerExit(c) ==
    /\ hpc[c] \in {"closed", "raised"}
    /\ Teardown(c)
    /\ cur' = [cur EXCEPT ![c] = NoCur]
    /\ UNCHANGED <<authvars, authenticated, rcvd, runvars, hbvars>>

\* receive_text() raises WebSocketDisconnect
HandlerDisconnected(c) ==
    /\ hpc[c] = "recv"
    /\ ~WsOpen(c)
    /\ Teardown(c)
    /\ UNCHANGED <<authvars, authenticated, cur, rcvd, runvars, hbvars>>

\* chat.send, not authenticated
RecvChatUnauth(c, id, text) ==
    /\ Receives(c, id, text)
    /\ Branch(text, authenticated[c], auth_token) = "not_authenticated"
    /\ HSend(c, make_error(ReqId(text), "not_authenticated", "Not authenticated"), "recv")
    /\ UNCHANGED <<authvars, authenticated, cur, regvars, runvars, hbvars>>

\* chat.send, authenticated, `not message_text`: continue
RecvChatEmpty(c, id, text) ==
    /\ Receives(c, id, text)
    /\ Branch(text, authenticated[c], auth_token) = "empty"
    /\ UNCHANGED <<authvars, hpc, authenticated, cur, tvars, regvars, runvars, hbvars>>

\* a handler that takes the next chat.send only when the turns before it have
\* ended, as it would if it awaited _handle_chat (a faulty variant of
\* RecvChatAccept)
RecvChatAcceptAfterTurn(c, id, text) ==
    /\ \A r \in DOMAIN runs : runs[r].pc = "done"
    /\ Receives(c, id, text)
    /\ Branch(text, authenticated[c], auth_token) = "accept"
    /\ nextRun <= limit.runs
    /\ nextRun' = nextRun + 1
    /\ cur' = [cur EXCEPT ![c] = [message_text |-> MessageText(text), run_id |-> nextRun]]
    /\ HSend(c, make_response(ReqId(text), [status |-> "accepted", runId |-> nextRun]), "store")
    /\ UNCHANGED <<authvars, authenticated, regvars, runs, messages, hbvars>>

\* chat.send, authenticated, with a message: run_id, the ack
RecvChatAccept(c, id, text) ==
    /\ Receives(c, id, text)
    /\ Branch(text, authenticated[c], auth_token) = "accept"
    /\ nextRun <= limit.runs
    /\ nextRun' = nextRun + 1
    /\ cur' = [cur EXCEPT ![c] = [message_text |-> MessageText(text), run_id |-> nextRun]]
    /\ HSend(c, make_response(ReqId(text), [status |-> "accepted", runId |-> nextRun]), "store")
    /\ UNCHANGED <<authvars, authenticated, regvars, runs, messages, hbvars>>

\* approval.respond, not authenticated: continue
RecvApprovalUnauth(c, id, text) ==
    /\ Receives(c, id, text)
    /\ Branch(text, authenticated[c], auth_token) = "silent"
    /\ UNCHANGED <<authvars, hpc, authenticated, cur, tvars, regvars, runvars, hbvars>>

\* approval.respond, authenticated
RecvApprovalAck(c, id, text) ==
    /\ Receives(c, id, text)
    /\ Branch(text, authenticated[c], auth_token) = "ack"
    /\ HSend(c, make_response(ReqId(text), [status |-> "acknowledged"]), "recv")
    /\ UNCHANGED <<authvars, authenticated, cur, regvars, runvars, hbvars>>

\* any other method
RecvUnknown(c, id, text) ==
    /\ Receives(c, id, text)
    /\ Branch(text, authenticated[c], auth_token) = "unknown"
    /\ HSend(c, make_error(ReqId(text), "unknown_method", "Unknown: " \o Method(text).s), "recv")
    /\ UNCHANGED <<authvars, authenticated, cur, regvars, runvars, hbvars>>


\* await storage.store_message(source="human", text_content=message_text)
HandlerStore(c) ==
    /\ hpc[c] = "store"
    /\ hpc' = [hpc EXCEPT ![c] = "spawn"]
    /\ messages' = Append(messages, [source |-> "human", type |-> "text", text_content |-> cur[c].message_text])
    /\ UNCHANGED <<authvars, authenticated, cur, rcvd, tvars, regvars, nextRun, runs, hbvars>>

\* the task asyncio.create_task(_handle_chat(ws, client_id, run_id, message_text)) makes
NewRun(c, text) == [conn |-> c, text |-> text, pc |-> "start", provider |-> "", full |-> "", produced |-> <<>>, shared |-> FALSE, priv |-> <<>>, exc |-> "none", msg |-> "", errs |-> 0]

\* asyncio.create_task(...); back to receive_text()
HandlerSpawn(c) ==
    /\ hpc[c] = "spawn"
    /\ hpc' = [hpc EXCEPT ![c] = "recv"]
    /\ runs' = [r \in DOMAIN runs \cup {cur[c].run_id} |-> IF r = cur[c].run_id THEN NewRun(c, cur[c].message_text) ELSE runs[r]]
    /\ cur' = [cur EXCEPT ![c] = NoCur]
    /\ UNCHANGED <<authvars, authenticated, rcvd, tvars, regvars, nextRun, messages, hbvars>>

\* ---------------------------------------------------- _handle_chat: a run
\* runs[r].pc: "start", "append" (awaiting the lifecycle-start send),
\* "stream" (awaiting the next token), "final" (awaiting the final send),
\* "end" (awaiting the lifecycle-end send), "stored" (awaiting
\* store_message), "except" (an await raised), "done".

\* the exceptions a send on a closed transport raises: WebSocketDisconnect
\* or another Exception, by the server stack
SendFaults == {"disconnect", "error"}

ProviderNone == "No LLM provider configured. Set OPENCLAW_LLM_API_KEY or run ollama locally."

\* the fragments a generation backend yields, in its order; a stream ends
\* or fails after any number of them
Stream == <<"Hel", "lo">>

Providers == {"llm", "none"}

\* await ws.send_text(frame) in a run: the frame goes out and the run goes on
\* to `okpc` with `upd` applied, or the send raises
RSend(r, upd, frame, okpc) ==
    LET c == runs[r].conn IN
    \/ /\ WsOpen(c)
       /\ sent' = [sent EXCEPT ![c] = Append(@, frame)]
       /\ runs' = [runs EXCEPT ![r] = [upd EXCEPT !.pc = okpc]]
    \/ /\ ~WsOpen(c)
       /\ \E k \in SendFaults : runs' = [runs EXCEPT ![r] = [upd EXCEPT !.pc = "except", !.exc = k, !.msg = "send failed"]]
       /\ UNCHANGED sent

\* await ws.send_text(make_agent_lifecycle(run_id, "start"))
RunStart(r) ==
    /\ r \in DOMAIN runs
    /\ runs[r].pc = "start"
    /\ RSend(r, runs[r], make_agent_lifecycle(r, "start"), "append")
    /\ UNCHANGED <<authvars, hvars, ws, closeCode, regvars, nextRun, messages, hbvars>>

\* history[-40:] when len(history) > 40
Trim(h) == IF Len(h) > MAX_HISTORY THEN SubSeq(h, Len(h) - MAX_HISTORY + 1, Len(h)) ELSE h

\* a turn that creates the transcript it does not find, as setdefault would (a
\* faulty variant of RunAppendUser)
RunAppendUserSetdefault(r, provider) ==
    /\ r \in DOMAIN runs
    /\ runs[r].pc = "append"
    /\ conversations' = conversations \cup {runs[r].conn}
    /\ history' = [history EXCEPT ![runs[r].conn] = Append(@, [role |-> "user", content |-> runs[r].text])]
    /\ runs' = [runs EXCEPT ![r].pc = "stream", ![r].provider = provider, ![r].shared = TRUE]
    /\ UNCHANGED <<authvars, hvars, tvars, clients, nextRun, messages, hbvars>>

\* history = _conversations.get(client_id, []); history.append(user turn);
\* llm.chat_stream(history, ...) picks its provider
RunAppendUser(r, provider) ==
    /\ r \in DOMAIN runs
    /\ runs[r].pc = "append"
    /\ LET c == runs[r].conn
           turn == [role |-> "user", content |-> runs[r].text] IN
       IF c \in conversations
       THEN /\ history' = [history EXCEPT ![c] = Append(@, turn)]
            /\ runs' = [runs EXCEPT ![r].pc = "stream", ![r].provider = provider, ![r].shared = TRUE]
       ELSE /\ runs' = [runs EXCEPT ![r].pc = "stream", ![r].provider = provider, ![r].priv = <<turn>>]
            /\ UNCHANGED history
    /\ UNCHANGED <<authvars, hvars, tvars, clients, conversations, nextRun, messages, hbvars>>

\* a delta that carries the token alone, not the text so far (a faulty variant
\* of RunToken)
RunTokenDiff(r, token) ==
    /\ r \in DOMAIN runs
    /\ runs[r].pc = "stream"
    /\ Len(runs[r].produced) < limit.tokens
    /\ IF runs[r].provider = "none" THEN runs[r].produced = <<>> /\ token = ProviderNone ELSE token # ProviderNone
    /\ token # ProviderNone => (Len(runs[r].produced) < Len(Stream) /\ token = Stream[Len(runs[r].produced) + 1])
    /\ RSend(r, [runs[r] EXCEPT !.full = @ \o token, !.produced = Append(@, token)], make_chat_event(r, token, "delta", FALSE), "stream")
    /\ UNCHANGED <<authvars, hvars, ws, closeCode, regvars, nextRun, messages, hbvars>>

\* the stream yields `token`: full_response += token; the delta send
RunToken(r, token) ==
    /\ r \in DOMAIN runs
    /\ runs[r].pc = "stream"
    /\ Len(runs[r].produced) < limit.tokens
    /\ IF runs[r].provider = "none" THEN runs[r].produced = <<>> /\ token = ProviderNone ELSE token # ProviderNone
    /\ token # ProviderNone => (Len(runs[r].produced) < Len(Stream) /\ token = Stream[Len(runs[r].produced) + 1])
    /\ LET full == runs[r].full \o token IN
       RSend(r, [runs[r] EXCEPT !.full = full, !.produced = Append(@, token)], make_chat_event(r, full, "delta", FALSE), "stream")
    /\ UNCHANGED <<authvars, hvars, ws, closeCode, regvars, nextRun, messages, hbvars>>

\* a turn that skips the final event (a faulty variant of RunStreamEnd)
StreamEndWithoutFinal(r) ==
    /\ r \in DOMAIN runs
    /\ runs[r].pc = "stream"
    /\ runs' = [runs EXCEPT ![r].pc = "final"]
    /\ UNCHANGED <<authvars, hvars, tvars, regvars, nextRun, messages, hbvars>>

\* the stream is exhausted: the final send
RunStreamEnd(r) ==
    /\ r \in DOMAIN runs
    /\ runs[r].pc = "stream"
    /\ runs[r].provider = "none" => runs[r].produced # <<>>
    /\ RSend(r, runs[r], make_chat_event(r, runs[r].full, "final", TRUE), "final")
    /\ UNCHANGED <<authvars, hvars, ws, closeCode, regvars, nextRun, messages, hbvars>>

\* a stream that may raise whatever the provider (a faulty variant of
\* RunStreamFail)
RunStreamFailAny(r) ==
    /\ r \in DOMAIN runs
    /\ runs[r].pc = "stream"
    /\ runs' = [runs EXCEPT ![r].pc = "except", ![r].exc = "error", ![r].msg = "llm failed"]
    /\ UNCHANGED <<authvars, hvars, tvars, regvars, nextRun, messages, hbvars>>

\* the stream raises (the HTTP call to the backend fails)
RunStreamFail(r) ==
    /\ r \in DOMAIN runs
    /\ runs[r].pc = "stream"
    /\ runs[r].provider = "llm"
    /\ runs' = [runs EXCEPT ![r].pc = "except", ![r].exc = "error", ![r].msg = "llm failed"]
    /\ UNCHANGED <<authvars, hvars, tvars, regvars, nextRun, messages, hbvars>>

\* await ws.send_text(make_agent_lifecycle(run_id, "end"))
RunLifecycleEnd(r) ==
    /\ r \in DOMAIN runs
    /\ runs[r].pc = "final"
    /\ RSend(r, runs[r], make_agent_lifecycle(r, "end"), "end")
    /\ UNCHANGED <<authvars, hvars, ws, closeCode, regvars, nextRun, messages, hbvars>>

\* history.append(assistant turn); the trim; store_message(source="crab", ...)
\* a turn that writes back its own two turns over whatever the transcript holds
\* (a faulty variant of RunRecord)
RunRecordOverwrites(r) ==
    /\ r \in DOMAIN runs
    /\ runs[r].pc = "end"
    /\ history' = [history EXCEPT ![runs[r].conn] = <<[role |-> "user", content |-> runs[r].text], [role |-> "assistant", content |-> runs[r].full]>>]
    /\ runs' = [runs EXCEPT ![r].pc = "stored"]
    /\ messages' = Append(messages, [source |-> "crab", type |-> "text", text_content |-> runs[r].full])
    /\ UNCHANGED <<authvars, hvars, tvars, clients, conversations, nextRun, hbvars>>

RunRecord(r) ==
    /\ r \in DOMAIN runs
    /\ runs[r].pc = "end"
    /\ LET c == runs[r].conn
           turn == [role |-> "assistant", content |-> runs[r].full] IN
       IF runs[r].shared
       THEN /\ history' = [history EXCEPT ![c] = Trim(Append(@, turn))]
            /\ runs' = [runs EXCEPT ![r].pc = "stored"]
       ELSE /\ runs' = [runs EXCEPT ![r].pc = "stored", ![r].priv = Trim(Append(@, turn))]
            /\ UNCHANGED history
    /\ messages' = Append(messages, [source |-> "crab", type |-> "text", text_content |-> runs[r].full])
    /\ UNCHANGED <<authvars, hvars, tvars, clients, conversations, nextRun, hbvars>>

\* what tts.synthesize returns: None (disabled, unavailable, a non-200 reply),
\* audio bytes, or an httpx error it does not catch
SynthOutcomes == {"none", "audio", "raise"}

\* audio = await tts.synthesize(full_response); the audio_broadcast send
RunSynth(r, outcome) ==
    /\ r \in DOMAIN runs
    /\ runs[r].pc = "stored"
    /\ CASE outcome = "none" -> runs' = [runs EXCEPT ![r].pc = "done"] /\ UNCHANGED sent
         [] outcome = "raise" -> runs' = [runs EXCEPT ![r].pc = "except", ![r].exc = "error", ![r].msg = "tts failed"] /\ UNCHANGED sent
         [] outcome = "audio" -> RSend(r, runs[r], make_event("audio_broadcast", [audio_base64 |-> "b64", text |-> runs[r].full]), "done")
    /\ UNCHANGED <<authvars, hvars, ws, closeCode, regvars, nextRun, messages, hbvars>>

\* a turn whose exception reaches the connection handler (a faulty variant of
\* RunExcept)
RunExceptPropagates(r) ==
    /\ r \in DOMAIN runs
    /\ runs[r].pc = "except"
    /\ runs' = [runs EXCEPT ![r].pc = "done"]
    /\ hpc' = [hpc EXCEPT ![runs[r].conn] = IF @ = "exited" THEN @ ELSE "raised"]
    /\ UNCHANGED <<authvars, authenticated, cur, rcvd, tvars, regvars, nextRun, messages, hbvars>>

\* except WebSocketDisconnect: pass; except Exception: the error event, whose
\* own failure is swallowed
RunExcept(r) ==
    /\ r \in DOMAIN runs
    /\ runs[r].pc = "except"
    /\ IF runs[r].exc = "error"
       THEN /\ runs' = [runs EXCEPT ![r].pc = "done", ![r].errs = @ + 1]
            /\ sent' = [sent EXCEPT ![runs[r].conn] = IF WsOpen(runs[r].conn) THEN Append(@, make_agent_error(r, runs[r].msg)) ELSE @]
       ELSE /\ runs' = [runs EXCEPT ![r].pc = "done"]
            /\ UNCHANGED sent
    /\ UNCHANGED <<authvars, hvars, ws, closeCode, regvars, nextRun, messages, hbvars>>

\* ------------------------------------------------------- _heartbeat_loop
\* hbpc: "sleep" (in asyncio.sleep(30)) or "iter" (awaiting a tick's send).
\* hbSnap is list(_clients.items()), hbIdx the item whose send is awaited,
\* hbFailed the client whose send raised (0: none), hbOk the clients of this
\* tick whose send returned.

\* the pop after a failed send, then the next item's send or the next sleep
HBAdvance(snap, idx, reg) ==
    /\ clients' = reg
    /\ hbSnap' = snap
    /\ IF idx > Len(snap)
       THEN /\ hbpc' = "sleep"
            /\ hbIdx' = 0
            /\ hbFailed' = 0
            /\ hbOk' = IF idx = 1 THEN {} ELSE hbOk
            /\ UNCHANGED sent
       ELSE /\ hbpc' = "iter"
            /\ hbIdx' = idx
            /\ IF WsOpen(snap[idx])
               THEN /\ sent' = [sent EXCEPT ![snap[idx]] = Append(@, make_tick)]
                    /\ hbFailed' = 0
                    /\ hbOk' = (IF idx = 1 THEN {} ELSE hbOk) \cup {snap[idx]}
               ELSE /\ hbFailed' = snap[idx]
                    /\ hbOk' = IF idx = 1 THEN {} ELSE hbOk
                    /\ UNCHANGED sent

\* asyncio.sleep(30) returns: make_tick(), list(_clients.items()), first send
HBWake ==
    /\ hbpc = "sleep"
    /\ ticks < limit.ticks
    /\ ticks' = ticks + 1
    /\ HBAdvance(clients, 1, clients)
    /\ UNCHANGED <<authvars, hvars, ws, closeCode, conversations, history, runvars>>

\* a tick that ends at the first send that raises (a faulty variant of HBNext)
HBNextStopsAtFailure ==
    /\ hbpc = "iter"
    /\ IF hbFailed # 0
       THEN HBAdvance(hbSnap, Len(hbSnap) + 1, Pop(clients, hbFailed))
       ELSE HBAdvance(hbSnap, hbIdx + 1, clients)
    /\ UNCHANGED <<authvars, hvars, ws, closeCode, conversations, history, runvars, ticks>>

\* a send returned or raised: except Exception: _clients.pop(client_id, None)
HBNext ==
    /\ hbpc = "iter"
    /\ HBAdvance(hbSnap, hbIdx + 1, IF hbFailed # 0 THEN Pop(clients, hbFailed) ELSE clients)
    /\ UNCHANGED <<authvars, hvars, ws, closeCode, conversations, history, runvars, ticks>>

\* ------------------------------------------------- the protocol dispatch
\* One connection, every kind of inbound text, one chat run with a
\* one-token stream and speech synthesis disabled.
Init == Boot /\ limit = Limits(ProtoConns, ProtoFrames, ProtoRuns, ProtoTokens, 0)

Handler(c, id, text) ==
    \/ RecvMalformed(c, id, text)
    \/ RecvNotRequest(c, id, text)
    \/ RecvFault(c, id, text)
    \/ RecvConnectOk(c, id, text)
    \/ RecvConnectFail(c, id, text)
    \/ RecvChatUnauth(c, id, text)
    \/ RecvChatEmpty(c, id, text)
    \/ RecvChatAccept(c, id, text)
    \/ RecvApprovalUnauth(c, id, text)
    \/ RecvApprovalAck(c, id, text)
    \/ RecvUnknown(c, id, text)

HandlerSteps(c) ==
    \/ Accept(c)
    \/ PeerClose(c)
    \/ HandlerClose(c)
    \/ HandlerExit(c)
    \/ HandlerDisconnected(c)
    \/ HandlerStore(c)
    \/ HandlerSpawn(c)

Next ==
    \/ \E c \in Conns : HandlerSteps(c)
    \/ \E c \in Conns : \E id \in 1..ProtoFrames : \E text \in AllTexts(id) : Handler(c, id, text)
    \/ \E r \in 1..ProtoRuns : RunStart(r)
    \/ \E r \in 1..ProtoRuns : RunAppendUser(r, "llm")
    \/ \E r \in 1..ProtoRuns : RunToken(r, "Hel")
    \/ \E r \in 1..ProtoRuns : RunStreamEnd(r)
    \/ \E r \in 1..ProtoRuns : RunLifecycleEnd(r)
    \/ \E r \in 1..ProtoRuns : RunRecord(r)
    \/ \E r \in 1..ProtoRuns : RunSynth(r, "none")
    \/ \E r \in 1..ProtoRuns : RunExcept(r)

Spec == Init /\ [][Next]_vars


\* ------------------------------------------------------- the chat turns
\* One client that connects with the valid token and then sends chat
\* messages without waiting for the replies: the runs of one session overlap.
\* The stream ends or fails after any number of tokens; the peer may go away.
InitChat == Boot /\ limit = Limits(ChatConns, ChatFrames, ChatRuns, ChatTokens, 0)

ChatClientTexts(id) == IF id = 1 THEN {ConnectValid(id)} ELSE {ChatSend(id, "hi")}

ChatHandler(c, id, text) ==
    \/ RecvConnectOk(c, id, text)
    \/ RecvChatAccept(c, id, text)

ChatHandlerSteps(c) ==
    \/ Accept(c)
    \/ PeerClose(c)
    \/ HandlerExit(c)
    \/ HandlerDisconnected(c)
    \/ HandlerStore(c)
    \/ HandlerSpawn(c)

RunSteps(r) ==
    \/ RunStart(r)
    \/ RunAppendUser(r, "llm")
    \/ \E k \in 1..Len(Stream) : RunToken(r, Stream[k])
    \/ RunStreamEnd(r)
    \/ RunStreamFail(r)
    \/ RunLifecycleEnd(r)
    \/ RunRecord(r)
    \/ RunSynth(r, "none")
    \/ RunExcept(r)

NextChat ==
    \/ \E c \in Conns : ChatHandlerSteps(c)
    \/ \E c \in Conns : \E id \in 1..ChatFrames : \E text \in ChatClientTexts(id) : ChatHandler(c, id, text)
    \/ \E r \in 1..ChatRuns : RunSteps(r)

SpecChat == InitChat /\ [][NextChat]_vars

\* ------------------------------------------------- a fault in a chat turn
\* Two sessions and the heartbeat: a client that connects, sends one chat
\* message and then another request, beside a client that only connects.
InitFault == Boot /\ limit = Limits(FaultConns, FaultFrames, FaultRuns, ChatTokens, FaultTicks)

FaultClientTexts(id) == IF id = 1 THEN {ConnectValid(id)} ELSE IF id = 2 THEN {ChatSend(id, "hi")} ELSE {Req(id, "approval.respond", EmptyParams)}

FaultHandler(c, id, text) ==
    \/ RecvConnectOk(c, id, text)
    \/ RecvChatAccept(c, id, text)
    \/ RecvApprovalAck(c, id, text)

NextFault ==
    \/ \E c \in Conns : ChatHandlerSteps(c)
    \/ \E c \in Conns : \E id \in 1..FaultFrames : \E text \in FaultClientTexts(id) : FaultHandler(c, id, text)
    \/ \E r \in 1..FaultRuns : RunSteps(r)
    \/ HBWake
    \/ HBNext

SpecFault == InitFault /\ [][NextFault]_vars

\* ---------------------------------------------------------- the heartbeat
\* Clients that connect with the valid token and may go away, and the
\* heartbeat loop.
InitHB == Boot /\ limit = Limits(HbConns, HbFrames, 0, 0, HbTicks)

HBHandlerSteps(c) ==
    \/ Accept(c)
    \/ PeerClose(c)
    \/ HandlerExit(c)
    \/ HandlerDisconnected(c)

NextHB ==
    \/ \E c \in Conns : HBHandlerSteps(c)
    \/ \E c \in Conns : \E id \in 1..HbFrames : RecvConnectOk(c, id, ConnectValid(id))
    \/ HBWake
    \/ HBNext

SpecHB == InitHB /\ [][NextHB]_vars

\* ------------------------------------------------------ the transcript cap
\* One client that connects and sends the next chat message when the turn
\* before it has ended; every stream ends without a token.
InitCap == Boot /\ limit = Limits(CapConns, CapFrames, CapRuns, 0, 0)

TurnsEnded == \A r \in DOMAIN runs : runs[r].pc = "done"

CapHandler(c, id) ==
    \/ id = 1 /\ RecvConnectOk(c, id, ConnectValid(id))
    \/ TurnsEnded /\ id > 1 /\ RecvChatAccept(c, id, ChatSend(id, "hi"))

CapRunSteps(r) ==
    \/ RunStart(r)
    \/ RunAppendUser(r, "llm")
    \/ RunStreamEnd(r)
    \/ RunLifecycleEnd(r)
    \/ RunRecord(r)
    \/ RunSynth(r, "none")
    \/ RunExcept(r)

NextCap ==
    \/ \E c \in Conns : ChatHandlerSteps(c)
    \/ \E c \in Conns : \E id \in 1..CapFrames : CapHandler(c, id)
    \/ \E r \in 1..CapRuns : CapRunSteps(r)

SpecCap == InitCap /\ [][NextCap]_vars

\* ------------------------------------------------------------ the auth gate
\* verify_token called with candidate strings, under each kind of configured
\* secret: none, an ASCII one, a generated one, one outside ASCII.
Generated == "ocgw_0f"

Secrets == {"", Secret, Generated} \cup NonAscii

Candidates == {"", Secret, Generated, "wrong", "S3CRET"} \cup NonAscii

InitAuth == auth_token \in Secrets /\ Fresh /\ limit = Limits(0, 0, 0, 0, 0)

\* verify_token(candidate) with get_config().auth_token as the secret
Verify(candidate) ==
    /\ Len(calls) < MaxCalls
    /\ calls' = Append(calls, [candidate |-> candidate, result |-> verify_token(JStr(candidate), auth_token)])
    /\ UNCHANGED <<limit, auth_token, hvars, tvars, regvars, runvars, hbvars>>

NextAuth == \E candidate \in Candidates : Verify(candidate)

SpecAuth == InitAuth /\ [][NextAuth]_vars

\* ------------------------------------------------- one turn, end to end
\* One client that connects and sends one chat message; the generation
\* backend is there or not, and speech synthesis is disabled or unavailable,
\* returns audio, or raises.
InitTurn == Boot /\ limit = Limits(TurnConns, TurnFrames, TurnRuns, TurnTokens, 0)

TurnRunSteps(r) ==
    \/ RunStart(r)
    \/ RunAppendUser(r, "llm")
    \/ RunAppendUser(r, "none")
    \/ \E k \in 1..Len(Stream) : RunToken(r, Stream[k])
    \/ RunToken(r, ProviderNone)
    \/ RunStreamEnd(r)
    \/ RunStreamFail(r)
    \/ RunLifecycleEnd(r)
    \/ RunRecord(r)
    \/ RunSynth(r, "none")
    \/ RunSynth(r, "audio")
    \/ RunSynth(r, "raise")
    \/ RunExcept(r)

NextTurn ==
    \/ \E c \in Conns : ChatHandlerSteps(c)
    \/ \E c \in Conns : \E id \in 1..TurnFrames : \E text \in ChatClientTexts(id) : ChatHandler(c, id, text)
    \/ \E r \in 1..TurnRuns : TurnRunSteps(r)

SpecTurn == InitTurn /\ [][NextTurn]_vars

\* ------------------------------------------------------------ storage.py
\* The clock's reading is [sec, micro].  datetime.isoformat() leaves the
\* fraction out when the microsecond is 0; a text is the sequence of its
\* character codes ("+" 43, "." 46, "0" 48), of which the model keeps the
\* last digit of the seconds, the fraction and the "+" of the UTC offset.
Clock == [sec : 0..MaxSec, micro : 0..MaxMicro]

isoformat(t) == IF t.micro = 0 THEN <<48 + t.sec, 43>> ELSE <<48 + t.sec, 46, 48 + t.micro, 43>>

\* a < b as SQLite compares TEXT (memcmp, a proper prefix being smaller)
RECURSIVE TextLess(_, _)
TextLess(a, b) ==
    IF b = <<>> THEN FALSE
    ELSE IF a = <<>> THEN TRUE
    ELSE IF Head(a) # Head(b) THEN Head(a) < Head(b)
    ELSE TextLess(Tail(a), Tail(b))

\* the row store_message inserts; the id is a fresh uuid4
store_message(log, source, text_content, now) == Append(log, [id |-> Len(log) + 1, created_at |-> isoformat(now), source |-> source, type |-> "text", text_content |-> text_content])

\* the orders ORDER BY created_at DESC may give the rows in: any order among
\* rows with equal created_at
DescOrders(log) == {p \in [1..Len(log) -> 1..Len(log)] : (\A i, j \in 1..Len(log) : i # j => p[i] # p[j]) /\ (\A i, j \in 1..Len(log) : i < j => ~TextLess(log[p[i]].created_at, log[p[j]].created_at))}

Reversed(q) == [k \in 1..Len(q) |-> q[Len(q) + 1 - k]]

\* the rows in the order SELECT gave them, newest first (a faulty variant of
\* get_messages)
get_messages_unreversed(log, n, p) == [k \in 1..(IF n < 0 \/ n > Len(log) THEN Len(log) ELSE n) |-> log[p[k]]]

\* SELECT ... ORDER BY created_at DESC LIMIT ? (a negative LIMIT is no limit),
\* p being the order of the sort; then reversed(rows)
get_messages(log, n, p) == Reversed([k \in 1..(IF n < 0 \/ n > Len(log) THEN Len(log) ELSE n) |-> log[p[k]]])

InitLog == Boot /\ limit = Limits(0, 0, 0, 0, 0)

\* await storage.store_message(source=..., text_content=...)
StoreMessage(source, now) ==
    /\ Len(messages) < MaxLog
    /\ messages' = store_message(messages, source, "hi", now)
    /\ UNCHANGED <<authvars, hvars, tvars, regvars, nextRun, runs, hbvars>>

\* GET /messages?limit=n
GetMessages(n) ==
    /\ Len(calls) < MaxReads
    /\ \E p \in DescOrders(messages) : calls' = Append(calls, [limit |-> n, log |-> messages, rows |-> get_messages(messages, n, p)])
    /\ UNCHANGED <<limit, auth_token, hvars, tvars, regvars, runvars, hbvars>>

NextLog ==
    \/ \E source \in {"human", "crab"} : \E now \in Clock : StoreMessage(source, now)
    \/ \E n \in -1..MaxLimit : GetMessages(n)

SpecLog == InitLog /\ [][NextLog]_vars

\* Two sessions whose turns overlap, within a session and across sessions
InitPair == Boot /\ limit = Limits(PairConns, PairFrames, PairRuns, PairTokens, 0)

NextPair ==
    \/ \E c \in Conns : ChatHandlerSteps(c)
    \/ \E c \in Conns : \E id \in 1..PairFrames : \E text \in ChatClientTexts(id) : ChatHandler(c, id, text)
    \/ \E r \in 1..PairRuns : RunSteps(r)

SpecPair == InitPair /\ [][NextPair]_vars

\* The heartbeat with sends that may raise although the peer is there (a
\* server stack whose send fails once; `except Exception` catches every kind),
\* so that a session is pruned while its handler goes on serving it.
HBAdvanceMay(snap, idx, reg, raises) ==
    /\ clients' = reg
    /\ hbSnap' = snap
    /\ IF idx > Len(snap)
       THEN /\ hbpc' = "sleep"
            /\ hbIdx' = 0
            /\ hbFailed' = 0
            /\ hbOk' = IF idx = 1 THEN {} ELSE hbOk
            /\ UNCHANGED sent
       ELSE /\ hbpc' = "iter"
            /\ hbIdx' = idx
            /\ IF WsOpen(snap[idx]) /\ ~raises
               THEN /\ sent' = [sent EXCEPT ![snap[idx]] = Append(@, make_tick)]
                    /\ hbFailed' = 0
                    /\ hbOk' = (IF idx = 1 THEN {} ELSE hbOk) \cup {snap[idx]}
               ELSE /\ hbFailed' = snap[idx]
                    /\ hbOk' = IF idx = 1 THEN {} ELSE hbOk
                    /\ UNCHANGED sent

HBWakeMay(raises) ==
    /\ hbpc = "sleep"
    /\ ticks < limit.ticks
    /\ ticks' = ticks + 1
    /\ HBAdvanceMay(clients, 1, clients, raises)
    /\ UNCHANGED <<authvars, hvars, ws, closeCode, conversations, history, runvars>>

\* a prune that also drops the transcript (a faulty variant of HBNextMay)
HBNextMayDropsTranscript(raises) ==
    /\ hbpc = "iter"
    /\ HBAdvanceMay(hbSnap, hbIdx + 1, IF hbFailed # 0 THEN Pop(clients, hbFailed) ELSE clients, raises)
    /\ conversations' = IF hbFailed # 0 THEN conversations \ {hbFailed} ELSE conversations
    /\ UNCHANGED <<authvars, hvars, ws, closeCode, history, runvars, ticks>>

HBNextMay(raises) ==
    /\ hbpc = "iter"
    /\ HBAdvanceMay(hbSnap, hbIdx + 1, IF hbFailed # 0 THEN Pop(clients, hbFailed) ELSE clients, raises)
    /\ UNCHANGED <<authvars, hvars, ws, closeCode, conversations, history, runvars, ticks>>

InitPrune == Boot /\ limit = Limits(PruneConns, PruneFrames, PruneRuns, PruneTokens, PruneTicks)

PruneClientTexts(id) == IF id = 1 THEN {ConnectValid(id)} ELSE {ChatSend(id, "hi"), ConnectValid(id)}

NextPrune ==
    \/ \E c \in Conns : ChatHandlerSteps(c)
    \/ \E c \in Conns : \E id \in 1..PruneFrames : \E text \in PruneClientTexts(id) : ChatHandler(c, id, text)
    \/ \E r \in 1..PruneRuns : RunSteps(r)
    \/ \E raises \in BOOLEAN : HBWakeMay(raises)
    \/ \E raises \in BOOLEAN : HBNextMay(raises)

SpecPrune == InitPrune /\ [][NextPrune]_vars

\* The heartbeat under the event loop's scheduling: a sleep returns and a send
\* returns or raises, so the loop's next step is always taken in the end.
SpecHBFair == SpecHB /\ WF_vars(HBWake) /\ WF_vars(HBNext)

\* ------------------------------------------------ reading the wire and log
Last(q) == q[Len(q)]

\* the text decodes to a request object
IsRequest(text) == LET f == parse_frame(text) IN f # None /\ IsDict(f) /\ Get(f, "type", JStr("")) = JStr("req")

IsConnect(text) == IsRequest(text) /\ Method(text) = JStr("connect")

\* a connect request whose params and auth are objects and whose token is
\* not the configured secret: another string, no token, or not a string
TokenMismatch(text) ==
    /\ IsConnect(text)
    /\ LET params == Get(parse_frame(text), "params", EmptyParams) IN
       /\ IsDict(params)
       /\ IsDict(Get(params, "auth", EmptyAuth))
       /\ Get(Get(params, "auth", EmptyAuth), "token", JStr("")) # JStr(auth_token)

\* a text that is not a well-formed frame: not JSON, JSON that is no object,
\* an object without type or method, or with params or auth that is no object
MalformedObject(v) ==
    \/ v.f.type = Missing
    \/ /\ v.f.type = JStr("req")
       /\ \/ v.f.method = Missing
          \/ /\ v.f.params # Missing
             /\ \/ ~IsDict(v.f.params)
                \/ v.f.params.f.auth # Missing /\ ~IsDict(v.f.params.f.auth)

Malformed(text) == ~text.json \/ ~IsDict(text.v) \/ MalformedObject(text.v)

IsResponse(f) == f.type = "res"

IsHelloOk(f) == IsResponse(f) /\ f.ok /\ "type" \in DOMAIN f.payload /\ f.payload.type = "hello-ok"

IsErrorCode(f, code) == IsResponse(f) /\ ~f.ok /\ f.error.code = code

\* the positions of the responses on c's wire that carry `rid`
ResponsesTo(c, rid) == {k \in 1..Len(sent[c]) : IsResponse(sent[c][k]) /\ sent[c][k].id = rid}

\* c's handler took `text` in this step
Took(c, text) == Len(rcvd'[c]) = Len(rcvd[c]) + 1 /\ Last(rcvd'[c]) = text

TookSome(c) == Len(rcvd'[c]) = Len(rcvd[c]) + 1

\* ------------------------------------------------------------------ claims

\* C1: every request frame the handler has taken and finished with (it is back
\* at receive_text) got exactly one response frame carrying its id.  (A connect
\* with an invalid token never brings the handler back to receive_text.)
C1_OneResponsePerRequest == \A c \in Conns : hpc[c] = "recv" => \A i \in 1..Len(rcvd[c]) : (IsRequest(rcvd[c][i]) /\ ReqId(rcvd[c][i]) = JNum(i)) => Cardinality(ResponsesTo(c, JNum(i))) = 1

\* C4: an inbound text that is not a well-formed frame is ignored: the handler
\* stays at receive_text, the transport stays as it was, nothing is sent, and
\* the authenticated flag, the registry and the transcripts are unchanged.
C4_MalformedIgnored == [][\A c \in Conns : (TookSome(c) /\ Malformed(Last(rcvd'[c]))) => (hpc'[c] = "recv" /\ ws' = ws /\ sent' = sent /\ authenticated' = authenticated /\ clients' = clients /\ conversations' = conversations /\ history' = history)]_vars

\* C5: once the handler of a connection whose peer stayed has exited after a
\* connect request whose token does not match the secret, that request was the
\* last text taken, it was answered with an auth_failed error carrying its id,
\* the transport was closed with code 4001, and the session is in neither the
\* registry nor the transcript map.
C5_InvalidConnectClosed == \A c \in Conns : \A i \in 1..Len(rcvd[c]) : (TokenMismatch(rcvd[c][i]) /\ hpc[c] = "exited" /\ ws[c] # "peer_closed") => (i = Len(rcvd[c]) /\ (\E k \in ResponsesTo(c, ReqId(rcvd[c][i])) : IsErrorCode(sent[c][k], "auth_failed")) /\ closeCode[c] = CLOSE_AUTH_FAILED /\ ~Registered(c) /\ c \notin conversations)

\* C6: a session that has not authenticated is in neither the registry nor the
\* transcript map; the step that takes a connect with the valid token on an
\* unauthenticated session sets authenticated, registers the session, creates
\* its empty transcript and, the peer being there, sends exactly the hello-ok
\* carrying the request's id; and whenever a hello-ok goes out the session is
\* already registered.
C6_Step(c) ==
    /\ ~authenticated[c] => (~Registered(c) /\ c \notin conversations)
    /\ ~authenticated'[c] => (~Registered(c)' /\ c \notin conversations')
    /\ \A id \in 1..ProtoFrames : (Took(c, ConnectValid(id)) /\ ~authenticated[c]) => (authenticated'[c] /\ Registered(c)' /\ c \in conversations' /\ history'[c] = <<>> /\ (ws'[c] = "open" => sent'[c] = Append(sent[c], make_hello_ok(JNum(id)))))
    /\ (Len(sent'[c]) > Len(sent[c]) /\ IsHelloOk(Last(sent'[c]))) => (Registered(c)' /\ c \in conversations' /\ authenticated'[c])

C6_ConnectRegisters == [][\A c \in Conns : C6_Step(c)]_vars

\* C6 witness: a registered, authenticated session with a transcript whose
\* first request was answered by hello-ok
C6_Witness == \E c \in Conns : authenticated[c] /\ Registered(c) /\ c \in conversations /\ Len(sent[c]) = 2 /\ IsHelloOk(sent[c][2]) /\ sent[c][2].id = JNum(1)

\* C7: the authenticated flag never reverts, and a connect request taken by an
\* already authenticated session whose peer is there is answered with
\* auth_failed and leads to the close, never to a second hello-ok.
C7_ConnectOnlyOnce == [][\A c \in Conns : (authenticated[c] => authenticated'[c]) /\ ((authenticated[c] /\ TookSome(c) /\ IsConnect(Last(rcvd'[c])) /\ ws'[c] = "open") => (hpc'[c] = "closing" /\ Len(sent'[c]) = Len(sent[c]) + 1 /\ IsErrorCode(Last(sent'[c]), "auth_failed")))]_vars

\* the events on the run's connection that carry its runId
RunEvents(r) == SelectSeq(sent[runs[r].conn], LAMBDA f : f.type = "event" /\ "runId" \in DOMAIN f.payload /\ f.payload.runId = r)

\* what an event of a run is: <<kind, text>>
Tag(f) ==
    IF f.event = "chat" THEN <<f.payload.state, f.payload.text>>
    ELSE IF f.payload.stream = "lifecycle" THEN <<f.payload.data.phase, "">>
    ELSE <<"error", f.payload.data.message>>

Tags(q) == [k \in 1..Len(q) |-> Tag(q[k])]

\* the concatenation of the first k tokens
RECURSIVE Joined(_, _)
Joined(tokens, k) == IF k = 0 THEN "" ELSE Joined(tokens, k - 1) \o tokens[k]

\* the events of a complete turn over `tokens`
TurnEvents(tokens) == <<(<<"start", "">>)>> \o [k \in 1..Len(tokens) |-> <<"delta", Joined(tokens, k)>>] \o <<(<<"final", Joined(tokens, Len(tokens))>>), (<<"end", "">>)>>

IsPrefix(p, q) == Len(p) <= Len(q) /\ \A k \in 1..Len(p) : p[k] = q[k]

WithoutError(q) == SelectSeq(q, LAMBDA t : t[1] # "error")

\* C2: on its connection, the events carrying a run's id are a prefix of
\* start, one delta per produced token with the text accumulated so far,
\* final with the whole text, end (an error event, if the turn faulted, comes
\* last); a turn that ended without a fault sent exactly that sequence.  This
\* holds for every run, whatever other runs put on the same wire in between.
C2_EventOrder == \A r \in DOMAIN runs : LET ev == Tags(RunEvents(r)) IN
    /\ IsPrefix(WithoutError(ev), TurnEvents(runs[r].produced))
    /\ \A k \in 1..Len(ev) : ev[k][1] = "error" => k = Len(ev)
    /\ (runs[r].pc \in {"stored", "done"} /\ runs[r].exc = "none") => ev = TurnEvents(runs[r].produced)

\* C2 witness: two turns of one session over the tokens "Hel", "lo" ended,
\* each with start, delta("Hel"), delta("Hello"), final("Hello"), end, and the
\* second turn's start went out before the first turn's end
C2_Witness == DOMAIN runs = {1, 2} /\ (\A r \in {1, 2} : runs[r].pc = "done" /\ runs[r].conn = 1 /\ Tags(RunEvents(r)) = <<(<<"start", "">>), (<<"delta", "Hel">>), (<<"delta", "Hello">>), (<<"final", "Hello">>), (<<"end", "">>)>>) /\ (\E i, j \in 1..Len(sent[1]) : i < j /\ sent[1][i] = make_agent_lifecycle(2, "start") /\ sent[1][j] = make_agent_lifecycle(1, "end"))

\* C3: a session's transcript never holds more than 40 entries.
C3_TranscriptCapped == \A c \in Conns : Len(history[c]) <= MAX_HISTORY

\* C8: every call of verify returned true when a non-empty secret is
\* configured and the candidate equals it, and false otherwise.
C8_VerifyExact == \A i \in 1..Len(calls) : calls[i].result = (IF auth_token # "" /\ calls[i].candidate = auth_token THEN "true" ELSE "false")

Range(q) == {q[k] : k \in 1..Len(q)}

TickFrames(c) == {k \in 1..Len(sent[c]) : sent[c][k] = make_tick}

\* C9: while a tick is under way each snapshot session up to the current one
\* either got the tick frame or has a closed transport; the step that ends
\* the tick has reached the last session of the snapshot (the sessions
\* registered when the tick started), and after it no session whose send
\* failed is registered while every session whose send succeeded, and whose
\* own handler has not torn it down meanwhile, still is.
C9_TickStep ==
    /\ hbpc = "iter" => (hbIdx \in 1..Len(hbSnap) /\ \A i \in 1..hbIdx : (hbSnap[i] \in hbOk /\ TickFrames(hbSnap[i]) # {}) \/ (hbSnap[i] \notin hbOk /\ ~WsOpen(hbSnap[i])))
    /\ (hbpc = "sleep" /\ ticks' = ticks + 1) => hbSnap' = clients
    /\ (hbpc = "iter" /\ hbpc' = "sleep") =>
          /\ hbIdx = Len(hbSnap)
          /\ \A c \in Range(hbSnap) \ hbOk : ~Registered(c)'
          /\ \A c \in hbOk : hpc'[c] # "exited" => Registered(c)'

C9_HeartbeatPrunes == [][C9_TickStep]_vars

\* C9 witness: a tick over three registered sessions ended; two sends
\* succeeded, one failed, no handler has exited, and exactly the two sessions
\* whose send succeeded are registered
C9_Witness == hbpc = "sleep" /\ ticks = 1 /\ Len(hbSnap) = 3 /\ Cardinality(hbOk) = 2 /\ (\A c \in Conns : hpc[c] = "recv") /\ Range(clients) = hbOk

ErrorEvents(r) == {k \in 1..Len(sent[runs[r].conn]) : sent[runs[r].conn][k] = make_agent_error(r, runs[r].msg)}

\* C10: a step of a chat turn, the faulting one and the exception handler's
\* included, changes no handler's position, no session's authenticated flag,
\* not the registry and not the heartbeat loop; a turn that ended after a
\* fault other than a disconnect attempted exactly one error event (on the
\* wire at most once, carrying the run's id and the fault's message, as the
\* run's last event), and a turn that ended after a disconnect attempted none
\* and put none on the wire.
C10_Step == (\E r \in DOMAIN runs : runs'[r] # runs[r]) => (hpc' = hpc /\ authenticated' = authenticated /\ clients' = clients /\ conversations' = conversations /\ hbpc' = hbpc /\ hbIdx' = hbIdx)

C10_Ended(r) == runs[r].pc = "done" =>
    /\ runs[r].exc = "error" => (runs[r].errs = 1 /\ Cardinality(ErrorEvents(r)) <= 1 /\ \A k \in ErrorEvents(r) : Last(RunEvents(r)) = sent[runs[r].conn][k])
    /\ runs[r].exc # "error" => (runs[r].errs = 0 /\ \A k \in 1..Len(RunEvents(r)) : Tag(RunEvents(r)[k])[1] # "error")

C10_FaultContained == [][C10_Step]_vars /\ [](\A r \in DOMAIN runs : C10_Ended(r))

\* C10 witness: a turn's stream failed, the error event with the run's id
\* went out, and after it the same connection's handler answered a later
\* request and the heartbeat sent it a tick, the other session's handler
\* still reading
C10_Witness == 1 \in DOMAIN runs /\ runs[1].pc = "done" /\ runs[1].exc = "error" /\ runs[1].msg = "llm failed" /\ (\E c \in Conns : c # runs[1].conn /\ authenticated[c] /\ hpc[c] = "recv") /\ (\E k \in ErrorEvents(1) : \E i, j \in (k + 1)..Len(sent[runs[1].conn]) : sent[runs[1].conn][i] = make_tick /\ IsResponse(sent[runs[1].conn][j]) /\ sent[runs[1].conn][j].ok /\ sent[runs[1].conn][j].payload = [status |-> "acknowledged"])

IsAudio(f) == f.type = "event" /\ f.event = "audio_broadcast"

IsRunEvent(f, r) == f.type = "event" /\ "runId" \in DOMAIN f.payload /\ f.payload.runId = r

\* the positions on c's wire of the audio_broadcast events, and of run r's events
AudioPositions(c) == {k \in 1..Len(sent[c]) : IsAudio(sent[c][k])}

RunPositions(c, r) == {k \in 1..Len(sent[c]) : IsRunEvent(sent[c][k], r)}

\* the lifecycle-end event of run r went out: its stream was exhausted and
\* the turn went on to record the answer and to synthesize speech
EndSent(r) == \E k \in 1..Len(RunEvents(r)) : Tag(RunEvents(r)[k]) = <<"end", "">>

\* C11: a turn that sent its lifecycle-end event and has ended sent no agent
\* error event, its events end with final then lifecycle-end, its answer is
\* in the durable log (and in the transcript of a session that is still
\* there), and at most one audio_broadcast went out, after the lifecycle-end.
C11_SynthesisNeverFailsTurn == \A r \in DOMAIN runs : (runs[r].pc = "done" /\ EndSent(r)) =>
    LET ev == Tags(RunEvents(r))
        c == runs[r].conn IN
    /\ \A k \in 1..Len(ev) : ev[k][1] # "error"
    /\ Len(ev) >= 2 /\ ev[Len(ev) - 1][1] = "final" /\ ev[Len(ev)][1] = "end"
    /\ \E k \in 1..Len(messages) : messages[k].text_content = runs[r].full /\ messages[k].source # "human"
    /\ runs[r].shared => \E k \in 1..Len(history[c]) : history[c][k] = [role |-> "assistant", content |-> runs[r].full]
    /\ Cardinality(AudioPositions(c)) <= 1
    /\ \A a \in AudioPositions(c) : \A k \in RunPositions(c, r) : k < a

IsChatSend(text) == IsRequest(text) /\ Method(text) = JStr("chat.send")

\* C13: the step in which an unauthenticated session's handler takes a
\* chat.send request, whatever its params, the peer being there, puts exactly
\* the not_authenticated error with the request's id on the wire and leaves
\* the handler at receive_text, the transport open, the session
\* unauthenticated and unregistered, and the run counter, the runs, the
\* durable log and the transcripts as they were.
C13_Step(c) == (TookSome(c) /\ IsChatSend(Last(rcvd'[c])) /\ ~authenticated[c] /\ ws'[c] = "open") =>
    /\ sent' = [sent EXCEPT ![c] = Append(@, make_error(ReqId(Last(rcvd'[c])), "not_authenticated", "Not authenticated"))]
    /\ hpc'[c] = "recv" /\ ~authenticated'[c] /\ cur' = cur
    /\ nextRun' = nextRun /\ runs' = runs /\ messages' = messages
    /\ history' = history /\ conversations' = conversations /\ clients' = clients

C13_UnauthenticatedChatRejected == [][\A c \in Conns : C13_Step(c)]_vars

\* C13 witness: an unauthenticated session sent the chat.send "hi" as its
\* first request and got the not_authenticated error with id 1; no run, no
\* log entry, the handler reading on
C13_Witness == \E c \in Conns : Len(rcvd[c]) = 1 /\ rcvd[c][1] = ChatSend(1, "hi") /\ sent[c] = <<make_challenge, make_error(JNum(1), "not_authenticated", "Not authenticated")>> /\ hpc[c] = "recv" /\ ws[c] = "open" /\ ~authenticated[c] /\ runs = <<>> /\ messages = <<>> /\ nextRun = 1

\* C14: a session whose handler has exited is in neither the registry nor
\* the transcript map, in every state from the exit on; the handler never
\* leaves the exited position; and no step of a chat turn or of the heartbeat
\* adds a session to either.
C14_Step == (\E r \in DOMAIN runs : runs'[r] # runs[r]) \/ hbpc' # hbpc \/ hbIdx' # hbIdx \/ ticks' # ticks => (Range(clients') \subseteq Range(clients) /\ conversations' \subseteq conversations)

C14_ExitedStaysAbsent == [](\A c \in Conns : hpc[c] = "exited" => (~Registered(c) /\ c \notin conversations)) /\ [][(\A c \in Conns : hpc[c] = "exited" => hpc'[c] = "exited") /\ C14_Step]_vars

\* C14 witness: a handler exited while its session's chat turn was in
\* flight; the turn then took its history (a list of its own, the session's
\* being gone) and ended, a heartbeat tick ran, and the session is absent
C14_Witness == 1 \in DOMAIN runs /\ hpc[runs[1].conn] = "exited" /\ runs[1].pc = "done" /\ ~runs[1].shared /\ runs[1].priv # <<>> /\ ticks = 1 /\ hbpc = "sleep" /\ ~Registered(runs[1].conn) /\ runs[1].conn \notin conversations

\* the instant a created_at text stands for: <<sec, micro>>
Instant(text) == <<text[1] - 48, IF text[2] = 43 THEN 0 ELSE text[3] - 48>>

Before(s, t) == s[1] < t[1] \/ (s[1] = t[1] /\ s[2] < t[2])

Min(a, b) == IF a < b THEN a ELSE b

\* C15: a history read with limit N >= 0 over a log of n entries returns
\* min(N, n) distinct entries of the log, no entry left out being later than
\* one returned, in ascending order of their instants.
C15_Read(call) == call.limit >= 0 =>
    /\ Len(call.rows) = Min(call.limit, Len(call.log))
    /\ \A k \in 1..Len(call.rows) : \E i \in 1..Len(call.log) : call.log[i] = call.rows[k]
    /\ \A j, k \in 1..Len(call.rows) : j < k => (call.rows[j].id # call.rows[k].id /\ ~Before(Instant(call.rows[k].created_at), Instant(call.rows[j].created_at)))
    /\ \A i \in 1..Len(call.log) : (\A k \in 1..Len(call.rows) : call.rows[k] # call.log[i]) => \A k \in 1..Len(call.rows) : ~Before(Instant(call.rows[k].created_at), Instant(call.log[i].created_at))

\* C15 (whole): every read is as above, and a step changes no entry the log
\* holds and removes none.
C15_HistoryRead == [](\A i \in 1..Len(calls) : C15_Read(calls[i])) /\ [][Len(messages') >= Len(messages) /\ \A k \in 1..Len(messages) : messages'[k] = messages[k]]_vars

\* C15 witness: entries stamped T1 < T2 < T3 (0.000001 s, 1 s, 1.000001 s),
\* read with limit 2: the T2 entry, then the T3 entry
C15_Witness == Len(messages) = 3 /\ (\A k \in 1..3 : messages[k].created_at = isoformat([sec |-> IF k = 1 THEN 0 ELSE 1, micro |-> IF k = 2 THEN 0 ELSE 1])) /\ Len(calls) = 1 /\ calls[1].limit = 2 /\ calls[1].rows = <<messages[2], messages[3]>>

\* the accepted acknowledgment carrying run r is on its connection's wire
AckSent(c, r) == \E k \in 1..Len(sent[c]) : IsResponse(sent[c][k]) /\ sent[c][k].ok /\ sent[c][k].payload = [status |-> "accepted", runId |-> r]

HumanLogged(text) == \E k \in 1..Len(messages) : messages[k].source = "human" /\ messages[k].text_content = text

\* the run's user turn is in the transcript the run works on
UserAppended(r) == runs[r].shared \/ runs[r].priv # <<>>

StartSent(r) == \E k \in 1..Len(RunEvents(r)) : Tag(RunEvents(r)[k]) = <<"start", "">>

\* C16: for every chat run, each side effect finds the one before it done:
\* the human entry is in the durable log only after the accepted response is
\* on the wire, the user turn is in the transcript only after the human entry
\* is logged, lifecycle-start is on the wire only after the user turn is in
\* the transcript, and the stream is asked for a token only after
\* lifecycle-start is on the wire.
C16_AcceptOrder == \A r \in DOMAIN runs :
    /\ HumanLogged(runs[r].text) /\ AckSent(runs[r].conn, r)
    /\ UserAppended(r) => HumanLogged(runs[r].text)
    /\ StartSent(r) => UserAppended(r)
    /\ runs[r].pc = "stream" => StartSent(r)

FinalSent(r) == \E k \in 1..Len(RunEvents(r)) : Tag(RunEvents(r)[k]) = <<"final", runs[r].full>>

\* the run's assistant turn is in the transcript the run works on
AssistantAppended(r) == \E k \in 1..Len(history[runs[r].conn]) \cup 1..Len(runs[r].priv) :
    LET h == IF runs[r].shared THEN history[runs[r].conn] ELSE runs[r].priv IN
    k <= Len(h) /\ h[k] = [role |-> "assistant", content |-> runs[r].full]

\* C17: for every chat run, lifecycle-end is on the wire only after the final
\* event with the full text is; once the turn has recorded its answer both
\* are on the wire, the assistant turn is in the transcript, which holds at
\* most 40 entries, and the durable log holds an entry with source "agent"
\* and the final text; speech synthesis has ended only after that; and every
\* entry of the durable log has source human or agent.
C17_ExhaustionOrder ==
    /\ \A r \in DOMAIN runs :
          /\ EndSent(r) => FinalSent(r)
          /\ runs[r].pc = "stored" \/ (runs[r].pc = "done" /\ runs[r].exc = "none") =>
                /\ FinalSent(r) /\ EndSent(r) /\ AssistantAppended(r)
                /\ Len(history[runs[r].conn]) <= MAX_HISTORY
                /\ \E k \in 1..Len(messages) : messages[k].source = "agent" /\ messages[k].text_content = runs[r].full
    /\ \A k \in 1..Len(messages) : messages[k].source \in {"human", "agent"}

\* C18: every chat run that has ended on a transport that is still open sent
\* one final chat event and then one lifecycle-end event as the last two of
\* its chat and lifecycle events.
C18_AlwaysFinalThenEnd == \A r \in DOMAIN runs : (runs[r].pc = "done" /\ WsOpen(runs[r].conn)) =>
    LET ev == WithoutError(Tags(RunEvents(r))) IN
    /\ Len(ev) >= 2 /\ ev[Len(ev) - 1][1] = "final" /\ ev[Len(ev)] = <<"end", "">>
    /\ Cardinality({k \in 1..Len(ev) : ev[k][1] = "final"}) = 1
    /\ Cardinality({k \in 1..Len(ev) : ev[k][1] = "end"}) = 1

\* the texts of the run's delta events, and of its final events, in wire order
DeltaTexts(r) == LET q == SelectSeq(RunEvents(r), LAMBDA f : f.event = "chat" /\ f.payload.state = "delta") IN [k \in 1..Len(q) |-> q[k].payload.text]

FinalTexts(r) == LET q == SelectSeq(RunEvents(r), LAMBDA f : f.event = "chat" /\ f.payload.state = "final") IN [k \in 1..Len(q) |-> q[k].payload.text]

\* C19: in every state the k-th delta of a run carries the concatenation of
\* the first k tokens produced; there are never more deltas than tokens, and
\* as many while the transport is open; a final event carries the
\* concatenation of all tokens and finds one delta per token on the wire (none
\* and the empty text when no token was produced); and the step that records
\* the answer appends an assistant turn whose content is the final event's
\* text.
C19_State(r) ==
    /\ Len(DeltaTexts(r)) <= Len(runs[r].produced)
    /\ WsOpen(runs[r].conn) => Len(DeltaTexts(r)) = Len(runs[r].produced)
    /\ \A k \in 1..Len(DeltaTexts(r)) : DeltaTexts(r)[k] = Joined(runs[r].produced, k)
    /\ Len(FinalTexts(r)) <= 1
    /\ FinalTexts(r) # <<>> => (FinalTexts(r)[1] = Joined(runs[r].produced, Len(runs[r].produced)) /\ Len(DeltaTexts(r)) = Len(runs[r].produced))
    /\ (FinalTexts(r) # <<>> /\ runs[r].produced = <<>>) => (DeltaTexts(r) = <<>> /\ FinalTexts(r) = <<"">>)

C19_Record(r) == (runs[r].pc = "end" /\ runs'[r].pc = "stored" /\ runs[r].shared) => (FinalTexts(r) # <<>> /\ history'[runs[r].conn] = Trim(Append(history[runs[r].conn], [role |-> "assistant", content |-> FinalTexts(r)[1]])))

C19_TextAccumulates == [](\A r \in DOMAIN runs : C19_State(r)) /\ [][\A r \in DOMAIN runs : C19_Record(r)]_vars

\* C19 witness: one session's two turns have ended, the first over no token
\* (no delta, final "", assistant turn ""), the second over "Hel", "lo"
\* (deltas "Hel", "Hello", final "Hello", assistant turn "Hello")
C19_Witness == DOMAIN runs = {1, 2} /\ runs[1].pc = "done" /\ runs[2].pc = "done" /\ DeltaTexts(1) = <<>> /\ FinalTexts(1) = <<"">> /\ DeltaTexts(2) = <<"Hel", "Hello">> /\ FinalTexts(2) = <<"Hello">> /\ (\E j, k \in 1..Len(history[1]) : history[1][j] = [role |-> "assistant", content |-> ""] /\ history[1][k] = [role |-> "assistant", content |-> "Hello"])

\* C20: whatever the state of the session's runs, a handler that is at
\* receive_text on an open transport of an authenticated session can take a
\* further chat.send and accept it (the environment having a text and a run
\* left); the step that creates a run's task brings the handler back to
\* receive_text with the new run not yet started and the other runs as they
\* were; and no step of a run moves a handler.
C20_Ready(c) == (hpc[c] = "recv" /\ WsOpen(c) /\ authenticated[c] /\ TextsTaken < limit.frames /\ nextRun <= limit.runs) => ENABLED RecvChatAccept(c, Len(rcvd[c]) + 1, ChatSend(Len(rcvd[c]) + 1, "hi"))

C20_Spawn(c) == (hpc[c] = "spawn" /\ hpc'[c] # "spawn") => (hpc'[c] = "recv" /\ cur[c].run_id \in DOMAIN runs' /\ runs'[cur[c].run_id].pc = "start" /\ \A r \in DOMAIN runs : runs'[r] = runs[r])

C20_ReadLoopNeverWaits == [](\A c \in Conns : C20_Ready(c)) /\ [][(\A c \in Conns : C20_Spawn(c)) /\ ((\E r \in DOMAIN runs : runs'[r] # runs[r]) => hpc' = hpc)]_vars

\* C20 witness: the first run is streaming, its final not sent; after its
\* first delta the handler accepted a second chat.send, the second run sent
\* its lifecycle-start, and then the first run sent its next delta
C20_Witness == DOMAIN runs = {1, 2} /\ runs[1].pc = "stream" /\ ~FinalSent(1) /\ (\E i, j, k, l \in 1..Len(sent[1]) : i < j /\ j < k /\ k < l /\ sent[1][i] = make_chat_event(1, "Hel", "delta", FALSE) /\ sent[1][j] = make_response(JNum(3), [status |-> "accepted", runId |-> 2]) /\ sent[1][k] = make_agent_lifecycle(2, "start") /\ sent[1][l] = make_chat_event(1, "Hello", "delta", FALSE))

\* the ticks c has been sent
TickCount(c) == Cardinality(TickFrames(c))

\* C21: the heartbeat loop is always sleeping or iterating, and an iterating
\* tick always comes back to the sleep, whatever sends fail and whatever
\* sessions leave meanwhile; at the end of a tick every snapshot session whose
\* transport is open has been sent the tick, also those after a session whose
\* send failed; as long as the environment lets the loop wake again
\* (ticks < the limit), the loop does wake, and a session that is registered
\* and reachable is then sent a further tick unless it stops being so.
C21_TickEnd == (hbpc = "iter" /\ hbpc' = "sleep") => \A c \in Range(hbSnap) : WsOpen(c) => (c \in hbOk' /\ TickFrames(c) # {})

C21_Served(c, k) == (Registered(c) /\ WsOpen(c) /\ ticks < limit.ticks /\ TickCount(c) = k) ~> (TickCount(c) > k \/ ~WsOpen(c) \/ ~Registered(c))

C21_HeartbeatKeepsTicking ==
    /\ [](hbpc \in {"sleep", "iter"})
    /\ [][C21_TickEnd]_vars
    /\ (hbpc = "iter") ~> (hbpc = "sleep")
    /\ \A k \in 0..HbTicks : (ticks = k /\ k < limit.ticks) ~> (ticks > k)
    /\ \A c \in Conns : \A k \in 0..HbTicks : C21_Served(c, k)

\* C21 witness: the second tick has ended; the first session of its snapshot
\* of three was gone and its send failed, and the two after it were sent the
\* tick
C21_Witness == hbpc = "sleep" /\ ticks = 2 /\ Len(hbSnap) = 3 /\ ~WsOpen(hbSnap[1]) /\ hbOk = {hbSnap[2], hbSnap[3]} /\ TickCount(hbSnap[2]) >= 1 /\ TickCount(hbSnap[3]) >= 1 /\ ~Registered(hbSnap[1])

\* a request for a method that needs an authenticated session
IsGated(text) == IsRequest(text) /\ Method(text) \in {JStr("chat.send"), JStr("approval.respond")}

\* a request for a method the handler does not know
IsUnknownMethod(text) == IsRequest(text) /\ Method(text) \notin {JStr("connect"), JStr("chat.send"), JStr("approval.respond")}

\* the handler of c put exactly this frame on the wire and reads on, and the
\* authenticated flag, the registry, the transcripts and the runs are as before
Answered(c, frame) ==
    /\ sent' = [sent EXCEPT ![c] = Append(@, frame)]
    /\ hpc'[c] = "recv" /\ ws' = ws
    /\ authenticated' = authenticated /\ clients' = clients /\ conversations' = conversations /\ history' = history
    /\ runs' = runs /\ messages' = messages

\* C22: the step in which a handler whose peer is there takes a request for an
\* unknown method, authenticated or not, answers it with the unknown_method
\* error carrying its id; the step that takes a chat.send or approval.respond
\* request on an unauthenticated session answers it with an error response
\* carrying its id; the step that takes an approval.respond request on an
\* authenticated session answers it with the ok response {status:
\* acknowledged}; each of these steps leaves the transport open, the handler
\* at receive_text, and the authenticated flag, the registry and the
\* transcripts unchanged.
C22_Step(c) == (TookSome(c) /\ ws'[c] = "open") =>
    LET text == Last(rcvd'[c]) IN
    /\ IsUnknownMethod(text) => Answered(c, make_error(ReqId(text), "unknown_method", "Unknown: " \o Method(text).s))
    /\ (IsGated(text) /\ ~authenticated[c]) => (Len(sent'[c]) = Len(sent[c]) + 1 /\ IsResponse(Last(sent'[c])) /\ ~Last(sent'[c]).ok /\ Last(sent'[c]).id = ReqId(text) /\ Answered(c, Last(sent'[c])))
    /\ (IsRequest(text) /\ Method(text) = JStr("approval.respond") /\ authenticated[c]) => Answered(c, make_response(ReqId(text), [status |-> "acknowledged"]))

C22_ViolationsAnswered == [][\A c \in Conns : C22_Step(c)]_vars

\* the handler of c has been started and has not left its finally block
HandlerRunning(c) == hpc[c] \notin {"idle", "exited"}

\* C23: every session in the registry has a transcript entry; every session
\* with a transcript entry has a running handler that has authenticated (so no
\* unauthenticated or terminated connection is registered); the snapshot a
\* tick takes holds only authenticated sessions whose handler is running, and
\* a tick frame goes only to a session of the current snapshot that is
\* authenticated and whose handler has not terminated.
C23_State(c) ==
    /\ Registered(c) => c \in conversations
    /\ c \in conversations => (HandlerRunning(c) /\ authenticated[c])

C23_Step ==
    /\ ticks' # ticks => \A c \in Range(hbSnap') : HandlerRunning(c) /\ authenticated[c] /\ c \in conversations
    /\ \A c \in Conns : (Len(sent'[c]) > Len(sent[c]) /\ Last(sent'[c]) = make_tick) => (c \in Range(hbSnap') /\ HandlerRunning(c) /\ authenticated[c])

C23_RegistryConsistent == [](\A c \in Conns : C23_State(c)) /\ [][C23_Step]_vars

\* C23 witness: after the second tick, one session got the first tick, was
\* torn down and is in neither map nor in the second snapshot; another got
\* both ticks and is in both maps; a third has a running handler, never
\* authenticated, is in neither map and got no tick
C23_Witness == hbpc = "sleep" /\ ticks = 2 /\ \E c, d, e \in Conns :
    /\ hpc[c] = "exited" /\ TickCount(c) = 1 /\ c \notin Range(hbSnap) /\ ~Registered(c) /\ c \notin conversations
    /\ TickCount(d) = 2 /\ Registered(d) /\ d \in conversations
    /\ hpc[e] = "recv" /\ ~authenticated[e] /\ TickCount(e) = 0 /\ ~Registered(e) /\ e \notin conversations

\* a step of the heartbeat loop
HeartbeatStep == hbpc' # hbpc \/ hbIdx' # hbIdx \/ ticks' # ticks

\* an authenticated session with a running handler that is not in the
\* registry: the heartbeat pruned it
Pruned(c) == authenticated[c] /\ HandlerRunning(c) /\ ~Registered(c)

\* this step put a tick frame on c's wire
TickSentTo(c) == Len(sent'[c]) > Len(sent[c]) /\ Last(sent'[c]) = make_tick

\* C24: a step of the heartbeat leaves the transcripts, the transcript map,
\* the authenticated flags, the handlers' positions, the runs, the run counter
\* and the durable log as they were and adds nothing to the registry; a
\* session the heartbeat pruned while its handler runs keeps its transcript
\* entry, has a chat.send request accepted whenever its handler is reading and
\* the peer is there (the acknowledgment goes out and the turn is stored), is
\* sent no tick while it is out of the registry, and gets back into the
\* registry only in a step in which its own handler takes a connect request
\* with the valid token.
C24_Tick == HeartbeatStep =>
    /\ history' = history /\ conversations' = conversations /\ authenticated' = authenticated /\ hpc' = hpc
    /\ runs' = runs /\ nextRun' = nextRun /\ messages' = messages
    /\ Range(clients') \subseteq Range(clients)

C24_Ready(c) == (Pruned(c) /\ hpc[c] = "recv" /\ WsOpen(c) /\ TextsTaken < limit.frames /\ nextRun <= limit.runs) => ENABLED RecvChatAccept(c, Len(rcvd[c]) + 1, ChatSend(Len(rcvd[c]) + 1, "hi"))

C24_Pruned(c) ==
    /\ Pruned(c) => (c \in conversations /\ ~TickSentTo(c))
    /\ (Pruned(c) /\ TookSome(c) /\ Last(rcvd'[c]) = ChatSend(Len(rcvd'[c]), "hi") /\ ws'[c] = "open") => (hpc'[c] = "store" /\ sent'[c] = Append(sent[c], make_response(JNum(Len(rcvd'[c])), [status |-> "accepted", runId |-> nextRun])) /\ ~Registered(c)' /\ history' = history)
    /\ (~Registered(c) /\ Registered(c)') => (TookSome(c) /\ Last(rcvd'[c]) = ConnectValid(Len(rcvd'[c])))

C24_TickTouchesRegistryOnly == [](\A c \in Conns : C24_Ready(c)) /\ [][C24_Tick /\ \A c \in Conns : C24_Pruned(c)]_vars

\* C24 witness: the first tick's send to the session raised and the session
\* was pruned; its handler runs, its chat.send was acknowledged and its turn
\* is complete in the transcript it kept; the second tick found an empty
\* registry and the session never got a tick
C24_Witness == \E c \in Conns : Pruned(c) /\ hpc[c] = "recv" /\ WsOpen(c) /\ c \in conversations /\ ticks = 2 /\ hbpc = "sleep" /\ hbSnap = <<>> /\ TickCount(c) = 0 /\ AckSent(c, 1) /\ Len(history[c]) = 2 /\ 1 \in DOMAIN runs /\ runs[1].pc = "done"

\* the run has ended and nothing in it raised
FinishedClean(r) == runs[r].pc = "done" /\ runs[r].exc = "none"

\* the transcript h holds the run's user turn and, after it, an assistant turn
\* with the run's final text, at the positions u and a
TurnsAt(h, r, u, a) == u < a /\ h[u] = [role |-> "user", content |-> runs[r].text] /\ h[a] = [role |-> "assistant", content |-> runs[r].full] /\ FinalTexts(r) = <<runs[r].full>>

\* C25: when two runs of one session have both ended without a fault, the
\* session's transcript holds four turns at four different positions: each
\* run's user turn and, after it, an assistant turn whose content is the text
\* of that run's final chat event (the assistant turns in either order); and a
\* step of a run changes no transcript but that of the run's own session.
C25_Both(r, q) == (r # q /\ runs[r].conn = runs[q].conn /\ FinishedClean(r) /\ FinishedClean(q)) =>
    LET h == history[runs[r].conn] IN
    /\ runs[r].shared /\ runs[q].shared
    /\ \E u1, a1, u2, a2 \in 1..Len(h) : Cardinality({u1, a1, u2, a2}) = 4 /\ TurnsAt(h, r, u1, a1) /\ TurnsAt(h, q, u2, a2)

C25_Own(r) == runs'[r] # runs[r] => \A c \in Conns : c # runs[r].conn => history'[c] = history[c]

C25_NoLostWrite == [](\A r, q \in DOMAIN runs : C25_Both(r, q)) /\ [][\A r \in DOMAIN runs : C25_Own(r)]_vars

\* C25 witness: two runs of the first session overlapped (both user turns
\* came before both assistant turns, and the second run's answer was recorded
\* first) and ended clean with different final texts; the transcript holds
\* all four turns
C25_Witness == DOMAIN runs = {1, 2} /\ runs[1].conn = runs[2].conn /\ FinishedClean(1) /\ FinishedClean(2) /\ runs[1].full = "Hel" /\ runs[2].full = "" /\ history[runs[1].conn] = <<[role |-> "user", content |-> "hi"], [role |-> "user", content |-> "hi"], [role |-> "assistant", content |-> ""], [role |-> "assistant", content |-> "Hel"]>>

====
